---- MODULE Spec2Model ----
(***************************************************************************)
(* A model of the identifier repair engine of app.py                       *)
(* (validate_and_fix_imports, find_similar_component), of the bounded      *)
(* retry loop of generate_diagram_code and of execute_diagram_code with    *)
(* the temporary directory of its caller.  Texts are TLA+ strings handled  *)
(* character by character (Len, \o and SubSeq), as Python's str.replace    *)
(* and re.sub handle them.                                                 *)
(***************************************************************************)
EXTENDS Integers, Sequences, FiniteSets, TLC

VARIABLES given, text, code, prev, calls, parsed, fixes, error,
          name, valid, result, done,
          max_retries, attempt, pc, model_calls, log, returned, raised,
          cwd, dirs, png_dirs, output_dir, original_dir, png_files, program, caller,
          loc, exc, ret

repairVars == <<given, text, code, prev, calls, parsed, fixes, error>>
resolverVars == <<name, valid, result, done>>
generateVars == <<max_retries, attempt, pc, model_calls, log, returned, raised>>
executeVars == <<cwd, dirs, png_dirs, output_dir, original_dir, png_files, program, caller,
                 loc, exc, ret>>
vars == <<given, text, code, prev, calls, parsed, fixes, error, name, valid, result, done,
          max_retries, attempt, pc, model_calls, log, returned, raised,
          cwd, dirs, png_dirs, output_dir, original_dir, png_files, program, caller,
          loc, exc, ret>>

-----------------------------------------------------------------------------
(* Strings, as the Python string methods see them.                          *)

Char(s, i) == SubSeq(s, i, i)

\* s[i-1:i-1+len(p)] == p, with i counted from 1
StartsWithAt(s, p, i) ==
    /\ i >= 1
    /\ i + Len(p) - 1 <= Len(s)
    /\ SubSeq(s, i, i + Len(p) - 1) = p

\* p in s
Contains(s, p) == \E i \in 1..(Len(s) + 1) : StartsWithAt(s, p, i)

\* s.find(p, i-1) + 1: the first position >= i where p starts, 0 when none
Find(s, p, i) ==
    LET at == { j \in i..(Len(s) + 1) : StartsWithAt(s, p, j) } IN
    IF at = {} THEN 0 ELSE CHOOSE j \in at : \A k \in at : j <= k

\* the scan of str.replace and of re.sub for a literal pattern: copy up to the
\* next match at or after i, put the replacement, go on after the match
RECURSIVE ReplaceFrom(_, _, _, _)
ReplaceFrom(s, old, new, i) ==
    LET j == Find(s, old, i) IN
    IF j = 0 THEN SubSeq(s, i, Len(s))
    ELSE SubSeq(s, i, j - 1) \o new \o ReplaceFrom(s, old, new, j + Len(old))

\* s.replace(old, new) for a non-empty old: leftmost, non-overlapping
StrReplace(s, old, new) == ReplaceFrom(s, old, new, 1)

\* re.sub(pattern, replacement, s) for a pattern of literal characters
ReSubLiteral(pattern, replacement, s) == ReplaceFrom(s, pattern, replacement, 1)

UpperChars == "ABCDEFGHIJKLMNOPQRSTUVWXYZ"
LowerChars == "abcdefghijklmnopqrstuvwxyz"
DigitChars == "0123456789"

\* the characters of a string
CharsOf(chars) == { Char(chars, i) : i \in 1..Len(chars) }

UpperSet == CharsOf(UpperChars)
DigitSet == CharsOf(DigitChars)
WordSet == UpperSet \cup CharsOf(LowerChars) \cup DigitSet \cup { "_" }

ToLower ==
    [ c \in UpperSet |->
        Char(LowerChars, CHOOSE i \in 1..Len(UpperChars) : Char(UpperChars, i) = c) ]

LowerChar(c) == IF c \in UpperSet THEN ToLower[c] ELSE c

\* the characters lo..hi of s in lower case
RECURSIVE LowerRange(_, _, _)
LowerRange(s, lo, hi) ==
    IF lo > hi THEN ""
    ELSE IF lo = hi THEN LowerChar(Char(s, lo))
    ELSE LET mid == (lo + hi) \div 2
         IN  LowerRange(s, lo, mid) \o LowerRange(s, mid + 1, hi)

\* s.lower()
Lower(s) == LowerRange(s, 1, Len(s))

\* \w of the re module, for the characters texts are made of
IsWordChar(c) == c \in WordSet

\* \b just before position i (1..Len(s)+1)
WordBoundary(s, i) ==
    LET before == i > 1 /\ IsWordChar(Char(s, i - 1))
        after  == i <= Len(s) /\ IsWordChar(Char(s, i))
    IN  before # after

\* \bold\b matches at position i
WordAt(s, old, i) ==
    /\ StartsWithAt(s, old, i)
    /\ WordBoundary(s, i)
    /\ WordBoundary(s, i + Len(old))

RECURSIVE ReplaceWordFrom(_, _, _, _)
ReplaceWordFrom(s, old, new, i) ==
    LET at == { j \in i..Len(s) : WordAt(s, old, j) } IN
    IF at = {} THEN SubSeq(s, i, Len(s))
    ELSE LET j == CHOOSE j \in at : \A k \in at : j <= k
         IN  SubSeq(s, i, j - 1) \o new \o ReplaceWordFrom(s, old, new, j + Len(old))

\* re.sub(rf'\b{re.escape(old)}\b', new, s)
ReSubWord(old, new, s) == ReplaceWordFrom(s, old, new, 1)

\* re.sub(r'(.)\1+', r'\1', s): of every run of one character (no newline)
\* the first is kept
RECURSIVE CollapseRange(_, _, _)
CollapseRange(s, lo, hi) ==
    IF lo > hi THEN ""
    ELSE IF lo = hi
         THEN IF lo > 1 /\ Char(s, lo) = Char(s, lo - 1) /\ Char(s, lo) # "\n"
              THEN "" ELSE Char(s, lo)
    ELSE LET mid == (lo + hi) \div 2
         IN  CollapseRange(s, lo, mid) \o CollapseRange(s, mid + 1, hi)

CollapseRuns(s) == CollapseRange(s, 1, Len(s))

-----------------------------------------------------------------------------
(* The tables.                                                              *)

AVAILABLE_COMPONENTS ==
    [ m \in { "diagrams.aws.compute", "diagrams.aws.database", "diagrams.aws.network",
              "diagrams.aws.storage", "diagrams.aws.integration",
              "diagrams.onprem.client", "diagrams.onprem.database",
              "diagrams.onprem.inmemory", "diagrams.onprem.queue",
              "diagrams.onprem.monitoring", "diagrams.programming.framework",
              "diagrams.programming.language", "diagrams.k8s.compute",
              "diagrams.k8s.network", "diagrams.k8s.storage" } |->
      CASE m = "diagrams.aws.compute" ->
             <<"EC2", "Lambda", "ECS", "EKS", "Batch", "Fargate", "ElasticBeanstalk">>
        [] m = "diagrams.aws.database" ->
             <<"RDS", "Dynamodb", "Aurora", "Elasticache", "ElastiCache",
               "DocumentdbMongodbCompatibility", "Neptune", "Redshift", "Timestream">>
        [] m = "diagrams.aws.network" ->
             <<"ELB", "ALB", "NLB", "CloudFront", "Route53", "APIGateway",
               "VPC", "DirectConnect", "CloudMap">>
        [] m = "diagrams.aws.storage" ->
             <<"S3", "EBS", "EFS", "Backup", "StorageGateway", "Fsx">>
        [] m = "diagrams.aws.integration" ->
             <<"SQS", "SNS", "StepFunctions", "Eventbridge", "MQ",
               "Appsync", "ExpressWorkflows">>
        [] m = "diagrams.onprem.client" -> <<"User", "Client">>
        [] m = "diagrams.onprem.database" ->
             <<"PostgreSQL", "MySQL", "MongoDB", "Cassandra", "Mariadb">>
        [] m = "diagrams.onprem.inmemory" -> <<"Redis", "Memcached">>
        [] m = "diagrams.onprem.queue" -> <<"Kafka", "RabbitMQ", "Celery", "Activemq">>
        [] m = "diagrams.onprem.monitoring" ->
             <<"Prometheus", "Grafana", "Datadog", "Splunk">>
        [] m = "diagrams.programming.framework" ->
             <<"React", "Django", "FastAPI", "Spring", "Flask">>
        [] m = "diagrams.programming.language" ->
             <<"Python", "Java", "NodeJS", "Go", "Javascript">>
        [] m = "diagrams.k8s.compute" ->
             <<"Pod", "Deployment", "StatefulSet", "Job", "DaemonSet">>
        [] m = "diagrams.k8s.network" -> <<"Ingress", "Service">>
        [] m = "diagrams.k8s.storage" -> <<"PV", "PVC", "StorageClass">> ]

Modules == DOMAIN AVAILABLE_COMPONENTS

\* the valid symbols of a registry module, as a set
ValidIn(module) == { AVAILABLE_COMPONENTS[module][i] :
                       i \in 1..Len(AVAILABLE_COMPONENTS[module]) }

\* the elements of a list
Elems(list) == { list[i] : i \in 1..Len(list) }

\* the dict in insertion order, as (old, new) pairs
NAMING_FIXES ==
    << <<"DynamoDB", "Dynamodb">>,
       <<"ElastiCache", "Elasticache">>,
       <<"EventBridge", "Eventbridge">>,
       <<"StepFunction", "StepFunctions">>,
       <<"StepFunctionss", "StepFunctions">>,
       <<"Users", "User">>,
       <<"Clients", "Client">>,
       <<"NodeJS", "NodeJS">>,
       <<"APIGateway", "APIGateway">>,
       <<"Api_Gateway", "APIGateway">>,
       <<"ApiGateway", "APIGateway">>,
       <<"ElasticCache", "Elasticache">>,
       <<"DynamoDb", "Dynamodb">>,
       <<"from diagrams.onprem.client import Users",
         "from diagrams.onprem.client import User">>,
       <<"from diagrams.onprem.client import Clients",
         "from diagrams.onprem.client import Client">>,
       <<"from diagrams.aws.database import DynamoDB",
         "from diagrams.aws.database import Dynamodb">>,
       <<"from diagrams.aws.database import ElastiCache",
         "from diagrams.aws.database import Elasticache">>,
       <<"from diagrams.aws.integration import EventBridge",
         "from diagrams.aws.integration import Eventbridge">>,
       <<"from diagrams.aws.integration import StepFunction",
         "from diagrams.aws.integration import StepFunctions">>,
       <<"from diagrams.aws.integration import StepFunctionss",
         "from diagrams.aws.integration import StepFunctions">> >>

import_patterns ==
    << <<"StepFunctionss", "StepFunctions">>,
       <<"Stepfunctions", "StepFunctions">>,
       <<"stepfunctions", "StepFunctions">>,
       <<"DynamoDb", "Dynamodb">>,
       <<"ElasticCache", "Elasticache">>,
       <<"ApiGateway", "APIGateway">> >>

-----------------------------------------------------------------------------
(* find_similar_component                                                   *)

\* find_similar_component returns None; an empty result is as falsy as None
\* at its one call site
NoMatch == ""

\* the component the loop returns: the first of the list among those at the
\* positions hits, NoMatch when the loop ends without a return
FirstAt(available_components, hits) ==
    IF hits = {} THEN NoMatch
    ELSE available_components[CHOOSE i \in hits : \A k \in hits : i <= k]

DirectMatch(nm, available_components) ==
    FirstAt(available_components,
            { i \in 1..Len(available_components) :
                Lower(nm) = Lower(available_components[i]) })

SubstringMatch(nm, available_components) ==
    FirstAt(available_components,
            { i \in 1..Len(available_components) :
                \/ Contains(Lower(available_components[i]), Lower(nm))
                \/ Contains(Lower(nm), Lower(available_components[i])) })

CleanedMatch(nm, available_components) ==
    IF CollapseRuns(nm) # nm
    THEN FirstAt(available_components,
                 { i \in 1..Len(available_components) :
                     Lower(CollapseRuns(nm)) = Lower(available_components[i]) })
    ELSE NoMatch

TrimmedMatch(nm, available_components) ==
    IF Len(nm) > 2
    THEN FirstAt(available_components,
                 { i \in 1..Len(available_components) :
                     Lower(SubSeq(nm, 1, Len(nm) - 1)) = Lower(available_components[i]) })
    ELSE NoMatch

\* find_similar_component with the substring test tried before the exact one
find_similar_component_SubstringFirst(nm, available_components) ==
    IF SubstringMatch(nm, available_components) # NoMatch
    THEN SubstringMatch(nm, available_components)
    ELSE IF DirectMatch(nm, available_components) # NoMatch
    THEN DirectMatch(nm, available_components)
    ELSE IF CleanedMatch(nm, available_components) # NoMatch
    THEN CleanedMatch(nm, available_components)
    ELSE TrimmedMatch(nm, available_components)

find_similar_component(nm, available_components) ==
    IF DirectMatch(nm, available_components) # NoMatch
    THEN DirectMatch(nm, available_components)
    ELSE IF SubstringMatch(nm, available_components) # NoMatch
    THEN SubstringMatch(nm, available_components)
    ELSE IF CleanedMatch(nm, available_components) # NoMatch
    THEN CleanedMatch(nm, available_components)
    ELSE TrimmedMatch(nm, available_components)

-----------------------------------------------------------------------------
(* ast.parse, for the statements the texts are made of: one simple          *)
(* statement per line, no indentation.  Anything else is a SyntaxError.     *)

Keywords ==
    { "False", "None", "True", "and", "as", "assert", "async", "await", "break",
      "class", "continue", "def", "del", "elif", "else", "except", "finally",
      "for", "from", "global", "if", "import", "in", "is", "lambda", "nonlocal",
      "not", "or", "pass", "raise", "return", "try", "while", "with", "yield" }

RECURSIVE SplitFrom(_, _, _)
SplitFrom(s, sep, i) ==
    LET j == Find(s, sep, i) IN
    IF j = 0 THEN << SubSeq(s, i, Len(s)) >>
    ELSE << SubSeq(s, i, j - 1) >> \o SplitFrom(s, sep, j + Len(sep))

\* s.split(sep)
Split(s, sep) == SplitFrom(s, sep, 1)

\* a NAME token that is no keyword
IsIdentifier(s) ==
    /\ Len(s) > 0
    /\ \A i \in 1..Len(s) : IsWordChar(Char(s, i))
    /\ Char(s, 1) \notin DigitSet
    /\ s \notin Keywords

IsDottedName(s) ==
    LET parts == Split(s, ".") IN \A i \in 1..Len(parts) : IsIdentifier(parts[i])

\* a double-quoted string without escapes
IsStringLiteral(s) ==
    /\ Len(s) >= 2
    /\ Char(s, 1) = "\"" /\ Char(s, Len(s)) = "\""
    /\ \A i \in 2..(Len(s) - 1) : Char(s, i) \notin { "\"", "\\", "\n" }

IsAtom(s) == IsIdentifier(s) \/ s \in { "True", "False", "None" } \/ IsStringLiteral(s)

\* NAME(), NAME(atom)
IsCall(s) ==
    LET open == Find(s, "(", 1) IN
    /\ open > 1
    /\ Char(s, Len(s)) = ")"
    /\ IsIdentifier(SubSeq(s, 1, open - 1))
    /\ LET arg == SubSeq(s, open + 1, Len(s) - 1) IN arg = "" \/ IsAtom(arg)

IsExpression(s) == IsAtom(s) \/ IsCall(s)

\* alias: NAME ["as" NAME]; the name it imports, "" when it is no alias
AliasName(s) ==
    LET parts == Split(s, " as ") IN
    IF Len(parts) = 1 /\ IsIdentifier(parts[1]) THEN parts[1]
    ELSE IF Len(parts) = 2 /\ IsIdentifier(parts[1]) /\ IsIdentifier(parts[2])
         THEN parts[1]
         ELSE ""

\* one logical line: [ok, imports], imports the (module, name) pairs of an
\* ImportFrom node in the order of node.names
ParseLine(line) ==
    LET none == << >> IN
    IF line = "" \/ StartsWithAt(line, "#", 1) THEN [ok |-> TRUE, imports |-> none]
    ELSE IF StartsWithAt(line, "from ", 1) THEN
        LET rest == SubSeq(line, 6, Len(line))
            k == Find(rest, " import ", 1)
            module == SubSeq(rest, 1, k - 1)
            aliases == Split(SubSeq(rest, k + 8, Len(rest)), ", ")
        IN  IF /\ k > 0
               /\ IsDottedName(module)
               /\ \A i \in 1..Len(aliases) : AliasName(aliases[i]) # ""
            THEN [ok |-> TRUE,
                  imports |-> [i \in 1..Len(aliases) |-> <<module, AliasName(aliases[i])>>]]
            ELSE [ok |-> FALSE, imports |-> none]
    ELSE IF StartsWithAt(line, "import ", 1) THEN
        [ok |-> IsDottedName(SubSeq(line, 8, Len(line))), imports |-> none]
    ELSE
        LET eq == Find(line, " = ", 1) IN
        IF eq > 0
        THEN [ok |-> /\ IsIdentifier(SubSeq(line, 1, eq - 1))
                     /\ IsExpression(SubSeq(line, eq + 3, Len(line))),
              imports |-> none]
        ELSE [ok |-> IsExpression(line), imports |-> none]

RECURSIVE ImportsOfLines(_, _)
ImportsOfLines(lines, i) ==
    IF i > Len(lines) THEN << >>
    ELSE ParseLine(lines[i]).imports \o ImportsOfLines(lines, i + 1)

\* ast.parse(code) followed by the walk over the ImportFrom nodes: the error
\* ast.parse raises ("none" when it returns a tree) and the (module, name)
\* pairs in the order ast.walk yields them
AstParse(c) ==
    LET lines == Split(c, "\n") IN
    IF \A i \in 1..Len(lines) : ParseLine(lines[i]).ok
    THEN [error |-> "none", imports |-> ImportsOfLines(lines, 1)]
    ELSE [error |-> "SyntaxError", imports |-> << >>]

-----------------------------------------------------------------------------
(* validate_and_fix_imports                                                 *)

\* Each pass of the loops below assigns the new text to code before the next
\* one reads it: the text of a pass is bound as a value (replaced \in {...})
\* and the rest of the loop is computed from that value.
RECURSIVE ApplyLiteral(_, _, _)
ApplyLiteral(c, table, i) ==
    IF i > Len(table) THEN c
    ELSE CHOOSE r \in { ApplyLiteral(replaced, table, i + 1) :
                          replaced \in { StrReplace(c, table[i][1], table[i][2]) } } : TRUE

\* for old, new in NAMING_FIXES.items(): code = code.replace(old, new)
NamingFixesPass(c) == ApplyLiteral(c, NAMING_FIXES, 1)

RECURSIVE ApplyPatterns(_, _, _)
ApplyPatterns(c, rules, i) ==
    IF i > Len(rules) THEN c
    ELSE CHOOSE r \in { ApplyPatterns(replaced, rules, i + 1) :
                          replaced \in { ReSubLiteral(rules[i][1], rules[i][2], c) } } : TRUE

\* for pattern, replacement in import_patterns: code = re.sub(...)
ImportPatternsPass(c) == ApplyPatterns(c, import_patterns, 1)

\* the (old_name, new_name) pair one imported name adds to imports_to_fix
FixOf(module, component_name) ==
    IF /\ module # "" /\ StartsWithAt(module, "diagrams.", 1)
       /\ module \in Modules
       /\ component_name \notin Elems(AVAILABLE_COMPONENTS[module])
       /\ find_similar_component(component_name, AVAILABLE_COMPONENTS[module]) # NoMatch
    THEN << <<component_name,
              find_similar_component(component_name, AVAILABLE_COMPONENTS[module])>> >>
    ELSE << >>

RECURSIVE ImportsToFix(_, _)
ImportsToFix(imports, i) ==
    IF i > Len(imports) THEN << >>
    ELSE FixOf(imports[i][1], imports[i][2]) \o ImportsToFix(imports, i + 1)

\* one round of the loop over imports_to_fix
ApplyFix(c, old_name, new_name) ==
    ReSubWord(old_name, new_name,
              StrReplace(c, "import " \o old_name, "import " \o new_name))

RECURSIVE ApplyFixes(_, _, _)
ApplyFixes(c, to_fix, i) ==
    IF i > Len(to_fix) THEN c
    ELSE CHOOSE r \in { ApplyFixes(replaced, to_fix, i + 1) :
                          replaced \in { ApplyFix(c, to_fix[i][1], to_fix[i][2]) } } : TRUE

\* a try statement whose except clause names another exception
Caught_Other == { "ValueError" }

\* the exceptions the try statement catches
Caught == { "SyntaxError" }

\* [code: the text returned, error: the exception that leaves the function
\*  ("none" when it returns), parsed, fixes: imports_to_fix]
\* the try statement, on the text the two passes left
ScanAndFix(fixed) ==
    LET tree == AstParse(fixed)
        to_fix == ImportsToFix(tree.imports, 1)
    IN  IF tree.error = "none"
        THEN [code |-> ApplyFixes(fixed, to_fix, 1), error |-> "none",
              parsed |-> TRUE, fixes |-> to_fix]
        ELSE IF tree.error \in Caught
        THEN [code |-> fixed, error |-> "none", parsed |-> FALSE, fixes |-> << >>]
        ELSE [code |-> fixed, error |-> tree.error, parsed |-> FALSE, fixes |-> << >>]

validate_and_fix_imports(c) ==
    CHOOSE r \in { ScanAndFix(fixed) :
                     fixed \in { ImportPatternsPass(NamingFixesPass(c)) } } : TRUE

-----------------------------------------------------------------------------
(* The texts the repair engine is run on: an import of one name from one    *)
(* module, alone or followed by a second line.                              *)

\* how many times in a row the engine is applied to a text
MaxCalls == 2

OtherModules == { "diagrams.custom" }

LastChar(s) == Char(s, Len(s))

\* a valid symbol as written, in lower case, and with its last letter doubled
Variants(s) == { s, Lower(s), s \o LastChar(s) }

MisspeltNames ==
    { "DynamoDB", "EventBridge", "StepFunction", "StepFunctionss", "Users", "Clients",
      "Api_Gateway", "ApiGateway", "ElasticCache", "DynamoDb",
      "Userss", "Zeta", "Go", "JA" }

\* the modules the misspelt names are imported from
MisspeltIn ==
    { "diagrams.aws.compute", "diagrams.aws.database", "diagrams.aws.integration",
      "diagrams.onprem.client", "diagrams.programming.framework",
      "diagrams.programming.language" }

VariantsIn(module) == UNION { Variants(s) : s \in Elems(AVAILABLE_COMPONENTS[module]) }

NamesFor(module) ==
    IF module \in Modules
    THEN VariantsIn(module) \cup (IF module \in MisspeltIn THEN MisspeltNames ELSE {})
    ELSE { "Users", "ec2" }

\* the lines that may follow the import of nm: none, a use of the name with a
\* string argument, the import of a longer name, and for the misspelt names
\* also an unclosed call and the import of the same name from another module
TailsFor(nm) ==
    { "",
      "\nnode = " \o nm \o "(\"Clients\")",
      "\nimport " \o nm \o "x" }
    \cup (IF nm \in MisspeltNames
          THEN { "\nnode = " \o nm \o "(",
                 "\nfrom diagrams.programming.language import " \o nm }
          ELSE {})

ImportLine(module, nm) == "from " \o module \o " import " \o nm

InitResolverIdle == name = "" /\ valid = << >> /\ result = NoMatch /\ done = FALSE

InitRepairIdle ==
    /\ given = [module |-> "", name |-> "", tail |-> ""]
    /\ text = "" /\ code = "" /\ prev = "" /\ calls = 0
    /\ parsed = FALSE /\ fixes = << >> /\ error = "none"

InitGenerateIdle ==
    /\ max_retries = 0 /\ attempt = 0 /\ pc = "idle" /\ model_calls = 0
    /\ log = << >> /\ returned = "" /\ raised = "none"

\* no invocation of execute_diagram_code: the process is in the directory it
\* was started in
MaxInvocations == 2

Invocations == 1..MaxInvocations

InitExecuteIdle ==
    /\ cwd = "/app" /\ dirs = {"/", "/app"} /\ png_dirs = {}
    /\ output_dir = [i \in Invocations |-> ""]
    /\ original_dir = [i \in Invocations |-> "None"]
    /\ png_files = [i \in Invocations |-> << >>]
    /\ program = [i \in Invocations |-> "nopng"]
    /\ caller = [i \in Invocations |-> "none"]
    /\ loc = [i \in Invocations |-> "off"]
    /\ exc = [i \in Invocations |-> "none"]
    /\ ret = [i \in Invocations |-> << >>]

Init ==
    /\ \E module \in Modules \cup OtherModules :
         \E nm \in NamesFor(module) :
           \E tail \in TailsFor(nm) :
             /\ given = [module |-> module, name |-> nm, tail |-> tail]
             /\ text = ImportLine(module, nm) \o tail
    /\ code = text
    /\ prev = text
    /\ calls = 0
    /\ parsed = FALSE
    /\ fixes = << >>
    /\ error = "none"
    /\ InitResolverIdle
    /\ InitGenerateIdle
    /\ InitExecuteIdle

\* code = validate_and_fix_imports(code)
Repair ==
    /\ calls < MaxCalls
    /\ error = "none"
    /\ \E r \in { validate_and_fix_imports(code) } :
         /\ code' = r.code
         /\ error' = r.error
         /\ parsed' = r.parsed
         /\ fixes' = r.fixes
    /\ prev' = code
    /\ calls' = calls + 1
    /\ UNCHANGED <<given, text>>
    /\ UNCHANGED resolverVars
    /\ UNCHANGED generateVars
    /\ UNCHANGED executeVars

Next == Repair

Spec == Init /\ [][Next]_vars

-----------------------------------------------------------------------------
(* find_similar_component on its own: a name against a list.                *)

\* a symbol with its second character doubled
InnerDoubled(s) ==
    IF Len(s) < 2 THEN s
    ELSE SubSeq(s, 1, 2) \o SubSeq(s, 2, 2) \o SubSeq(s, 3, Len(s))

ResolverNames ==
    UNION { { s, Lower(s), s \o LastChar(s), InnerDoubled(s), Lower(InnerDoubled(s)),
              s \o "x" } :
            s \in UNION { ValidIn(m) : m \in Modules } }
      \cup { "", "x", "Zeta", "Users", "JA" }

ResolverLists ==
    { AVAILABLE_COMPONENTS[m] : m \in Modules } \cup { << >>, <<"Java", "JAVA">> }

InitResolver ==
    /\ name \in ResolverNames
    /\ valid \in ResolverLists
    /\ result = NoMatch
    /\ done = FALSE
    /\ InitRepairIdle
    /\ InitGenerateIdle
    /\ InitExecuteIdle

\* result = find_similar_component(name, valid)
FindSimilar ==
    /\ ~done
    /\ result' = find_similar_component(name, valid)
    /\ done' = TRUE
    /\ UNCHANGED <<name, valid>>
    /\ UNCHANGED repairVars
    /\ UNCHANGED generateVars
    /\ UNCHANGED executeVars

NextResolver == FindSimilar

SpecResolver == InitResolver /\ [][NextResolver]_vars

-----------------------------------------------------------------------------
(* generate_diagram_code: the loop around the model call.                   *)

\* the largest retry bound a caller passes
MaxRetries == 2

\* what model.generate_content(full_prompt) followed by response.text does:
\* raises, or gives a text
ModelExceptions == { "ResourceExhausted", "ServiceUnavailable", "ValueError" }

\* the three backquotes of a markdown fence; a TLA+ string cannot hold a
\* backquote, so "~" stands for it in every text of this model
Fence == "~~~"

ModelTexts ==
    { Fence \o "python\nfrom diagrams.aws.compute import ec2\nnode = ec2()\n" \o Fence,
      "Here it is:\n" \o Fence \o "\nfrom diagrams.onprem.client import Users\n"
         \o Fence \o "\n",
      "from diagrams.aws.compute import EC2\n",
      Fence \o "python\nfrom diagrams.aws.compute import EC2",
      Fence \o "from diagrams.aws.compute import EC2" \o Fence }

\* re.search(open + r"\n(.*?)\n" + fence, code, re.DOTALL): the group, or no match
SearchFence(c, open) ==
    LET i == Find(c, open \o "\n", 1)
        j == IF i = 0 THEN 0 ELSE Find(c, "\n" \o Fence, i + Len(open) + 1)
    IN  IF j = 0 THEN [matched |-> FALSE, group |-> ""]
        ELSE [matched |-> TRUE, group |-> SubSeq(c, i + Len(open) + 1, j - 1)]

\* the code taken out of the markdown: .group(1) of no match raises
ExtractCode(c) ==
    IF Contains(c, Fence \o "python")
    THEN LET m == SearchFence(c, Fence \o "python") IN
         IF m.matched THEN [error |-> "none", code |-> m.group]
         ELSE [error |-> "AttributeError", code |-> ""]
    ELSE IF Contains(c, Fence)
    THEN LET m == SearchFence(c, Fence) IN
         IF m.matched THEN [error |-> "none", code |-> m.group]
         ELSE [error |-> "AttributeError", code |-> ""]
    ELSE [error |-> "none", code |-> c]

Whitespace == { " ", "\n", "\t", "\r", "\f" }

\* s.strip()
Strip(s) ==
    LET inked == { i \in 1..Len(s) : Char(s, i) \notin Whitespace } IN
    IF inked = {} THEN ""
    ELSE SubSeq(s, CHOOSE i \in inked : \A k \in inked : i <= k,
                   CHOOSE i \in inked : \A k \in inked : i >= k)

\* the body of the try statement after the model gave a text:
\* [error, code], code the text the function returns when error is "none"
TryBody(reply) ==
    LET extracted == ExtractCode(reply) IN
    IF extracted.error # "none" THEN [error |-> extracted.error, code |-> ""]
    ELSE CHOOSE o \in { [error |-> r.error, code |-> Strip(r.code)] :
                          r \in { validate_and_fix_imports(extracted.code) } } : TRUE

\* what one attempt comes to: the exception raised inside the try statement
\* ("none" when it returns) and the text returned
AttemptOutcomes ==
    { [error |-> e, code |-> ""] : e \in ModelExceptions }
      \cup { TryBody(reply) : reply \in ModelTexts }

\* the value of a function that ends without a return statement
None == "None"

InitGenerate ==
    /\ max_retries \in (0 - 1)..MaxRetries
    /\ attempt = 0
    /\ pc = "try"
    /\ model_calls = 0
    /\ log = << >>
    /\ returned = ""
    /\ raised = "none"
    /\ InitRepairIdle
    /\ InitResolverIdle
    /\ InitExecuteIdle

\* an attempt whose try body completes: return code.strip()
AttemptReturns ==
    /\ pc = "try"
    /\ attempt <= max_retries
    /\ \E o \in AttemptOutcomes :
         /\ o.error = "none"
         /\ returned' = o.code
         /\ log' = Append(log, "ok")
    /\ model_calls' = model_calls + 1
    /\ pc' = "returned"
    /\ UNCHANGED <<max_retries, attempt, raised>>
    /\ UNCHANGED repairVars
    /\ UNCHANGED resolverVars
    /\ UNCHANGED executeVars

\* AttemptFails with the last attempt taken for one that may still be retried:
\* continue ends the loop and nothing is raised
AttemptFails_ContinueOnLast ==
    /\ pc = "try"
    /\ attempt <= max_retries
    /\ \E o \in AttemptOutcomes :
         /\ o.error # "none"
         /\ log' = Append(log, o.error)
    /\ attempt' = attempt + 1
    /\ model_calls' = model_calls + 1
    /\ UNCHANGED <<max_retries, returned, pc, raised>>
    /\ UNCHANGED repairVars
    /\ UNCHANGED resolverVars
    /\ UNCHANGED executeVars

\* an attempt whose try body raises: continue, or raise e on the last attempt
AttemptFails ==
    /\ pc = "try"
    /\ attempt <= max_retries
    /\ \E o \in AttemptOutcomes :
         /\ o.error # "none"
         /\ log' = Append(log, o.error)
         /\ IF attempt < max_retries
            THEN /\ attempt' = attempt + 1
                 /\ UNCHANGED <<pc, raised>>
            ELSE /\ pc' = "raised"
                 /\ raised' = o.error
                 /\ UNCHANGED attempt
    /\ model_calls' = model_calls + 1
    /\ UNCHANGED <<max_retries, returned>>
    /\ UNCHANGED repairVars
    /\ UNCHANGED resolverVars
    /\ UNCHANGED executeVars

\* range(max_retries + 1) is exhausted: the function ends, returning None
LoopEnds ==
    /\ pc = "try"
    /\ attempt > max_retries
    /\ pc' = "returned"
    /\ returned' = None
    /\ UNCHANGED <<max_retries, attempt, model_calls, log, raised>>
    /\ UNCHANGED repairVars
    /\ UNCHANGED resolverVars
    /\ UNCHANGED executeVars

NextGenerate == AttemptReturns \/ AttemptFails \/ LoopEnds

SpecGenerate == InitGenerate /\ [][NextGenerate]_vars

-----------------------------------------------------------------------------
(* execute_diagram_code(code, output_dir) and the with-block of its caller. *)
(* The working directory cwd belongs to the process: every invocation reads *)
(* and writes the same one.  dirs are the directories that exist, png_dirs  *)
(* those that hold a PNG file.  Each os call is one step of the invocation  *)
(* that makes it.                                                           *)

\* what the executed code does: render a diagram into the working directory,
\* end without rendering, fail in an import statement, raise another
\* Exception, raise SystemExit (sys.exit()), or change the working directory
Programs == {"png", "nopng", "ImportError", "ValueError", "SystemExit", "chdir"}

\* the classes that "except Exception" catches; SystemExit is not one of them
ExceptionClasses == {"ImportError", "ValueError", "FileNotFoundError"}

StartDirs == {"/app", "/srv"}

\* tempfile.TemporaryDirectory(): a fresh directory for each invocation
TempDir(i) == "/tmp/tmp" \o ToString(i)

\* a directory that does not exist
MissingDir == "/tmp/gone"

PngPath(dir) == dir \o "/diagram.png"

\* str(e)
StrOf(e) == e

\* the except clause that an exception raised in the try body reaches
Dispatch(e) ==
    IF e = "ImportError" THEN "except_import"
    ELSE IF e \in ExceptionClasses THEN "except_other"
    ELSE "finally"

\* one invocation by the generate_button handler of one session, or one call
\* with a directory that is not there
InitInvocation(i) ==
    \E c \in {"handler", "direct"} :
      /\ caller[i] = c
      /\ loc[i] = (IF c = "handler" THEN "idle" ELSE "getcwd")
      /\ output_dir[i] = (IF c = "handler" THEN "" ELSE MissingDir)
      /\ program[i] \in Programs
      /\ original_dir[i] = "None"
      /\ png_files[i] = << >>
      /\ exc[i] = "none"
      /\ ret[i] = << >>

InitProcess ==
    /\ cwd \in StartDirs
    /\ dirs = StartDirs \cup {"/"}
    /\ png_dirs = {}
    /\ output_dir \in [Invocations -> {"", MissingDir}]
    /\ original_dir \in [Invocations -> {"None"}]
    /\ png_files \in [Invocations -> {<< >>}]
    /\ program \in [Invocations -> Programs]
    /\ caller \in [Invocations -> {"handler", "direct", "none"}]
    /\ loc \in [Invocations -> {"idle", "getcwd", "off"}]
    /\ exc \in [Invocations -> {"none"}]
    /\ ret \in [Invocations -> {<< >>}]

\* with tempfile.TemporaryDirectory() as temp_dir:
\*     ... execute_diagram_code(diagram_code, temp_dir)
TemporaryDirectory(i) ==
    /\ loc[i] = "idle"
    /\ output_dir' = [output_dir EXCEPT ![i] = TempDir(i)]
    /\ dirs' = dirs \cup {TempDir(i)}
    /\ loc' = [loc EXCEPT ![i] = "getcwd"]
    /\ UNCHANGED <<cwd, png_dirs, original_dir, png_files, program, caller, exc, ret>>
    /\ UNCHANGED repairVars
    /\ UNCHANGED resolverVars
    /\ UNCHANGED generateVars

\* original_dir = os.getcwd(), before the try statement
GetCwd(i) ==
    /\ loc[i] = "getcwd"
    /\ IF cwd \in dirs
       THEN /\ original_dir' = [original_dir EXCEPT ![i] = cwd]
            /\ loc' = [loc EXCEPT ![i] = "chdir"]
            /\ UNCHANGED exc
       ELSE /\ exc' = [exc EXCEPT ![i] = "FileNotFoundError"]
            /\ loc' = [loc EXCEPT ![i] = "after"]
            /\ UNCHANGED original_dir
    /\ UNCHANGED <<cwd, dirs, png_dirs, output_dir, png_files, program, caller, ret>>
    /\ UNCHANGED repairVars
    /\ UNCHANGED resolverVars
    /\ UNCHANGED generateVars

\* os.chdir(output_dir)
ChdirOutput(i) ==
    /\ loc[i] = "chdir"
    /\ IF output_dir[i] \in dirs
       THEN /\ cwd' = output_dir[i]
            /\ loc' = [loc EXCEPT ![i] = "exec"]
            /\ UNCHANGED exc
       ELSE /\ exc' = [exc EXCEPT ![i] = "FileNotFoundError"]
            /\ loc' = [loc EXCEPT ![i] = Dispatch("FileNotFoundError")]
            /\ UNCHANGED cwd
    /\ UNCHANGED <<dirs, png_dirs, output_dir, original_dir, png_files, program, caller, ret>>
    /\ UNCHANGED repairVars
    /\ UNCHANGED resolverVars
    /\ UNCHANGED generateVars

\* exec(code, namespace): the import statements at the head of the code
ExecImports(i) ==
    /\ loc[i] = "exec"
    /\ IF program[i] = "ImportError"
       THEN /\ exc' = [exc EXCEPT ![i] = "ImportError"]
            /\ loc' = [loc EXCEPT ![i] = Dispatch("ImportError")]
       ELSE /\ loc' = [loc EXCEPT ![i] = "running"]
            /\ UNCHANGED exc
    /\ UNCHANGED <<cwd, dirs, png_dirs, output_dir, original_dir, png_files, program, caller, ret>>
    /\ UNCHANGED repairVars
    /\ UNCHANGED resolverVars
    /\ UNCHANGED generateVars

\* exec(code, namespace): the rest of the code; a diagram is rendered to a
\* relative path, that is into the working directory of the process
ExecBody(i) ==
    /\ loc[i] = "running"
    /\ CASE program[i] = "png" /\ cwd \in dirs ->
              /\ png_dirs' = png_dirs \cup {cwd}
              /\ loc' = [loc EXCEPT ![i] = "glob"]
              /\ UNCHANGED <<cwd, exc>>
         [] program[i] = "png" /\ cwd \notin dirs ->
              /\ exc' = [exc EXCEPT ![i] = "FileNotFoundError"]
              /\ loc' = [loc EXCEPT ![i] = Dispatch("FileNotFoundError")]
              /\ UNCHANGED <<cwd, png_dirs>>
         [] program[i] = "chdir" ->
              /\ cwd' = "/"
              /\ loc' = [loc EXCEPT ![i] = "glob"]
              /\ UNCHANGED <<png_dirs, exc>>
         [] program[i] \in {"ValueError", "SystemExit"} ->
              /\ exc' = [exc EXCEPT ![i] = program[i]]
              /\ loc' = [loc EXCEPT ![i] = Dispatch(program[i])]
              /\ UNCHANGED <<cwd, png_dirs>>
         [] OTHER ->
              /\ loc' = [loc EXCEPT ![i] = "glob"]
              /\ UNCHANGED <<cwd, png_dirs, exc>>
    /\ UNCHANGED <<dirs, output_dir, original_dir, png_files, program, caller, ret>>
    /\ UNCHANGED repairVars
    /\ UNCHANGED resolverVars
    /\ UNCHANGED generateVars

\* png_files = list(Path(output_dir).glob('*.png'))
Glob(i) ==
    /\ loc[i] = "glob"
    /\ png_files' = [png_files EXCEPT ![i] =
                       IF output_dir[i] \in png_dirs THEN <<PngPath(output_dir[i])>>
                       ELSE << >>]
    /\ loc' = [loc EXCEPT ![i] = "back"]
    /\ UNCHANGED <<cwd, dirs, png_dirs, output_dir, original_dir, program, caller, exc, ret>>
    /\ UNCHANGED repairVars
    /\ UNCHANGED resolverVars
    /\ UNCHANGED generateVars

\* os.chdir(original_dir), in the try body
ChdirBack(i) ==
    /\ loc[i] = "back"
    /\ IF original_dir[i] \in dirs
       THEN /\ cwd' = original_dir[i]
            /\ loc' = [loc EXCEPT ![i] = "return"]
            /\ UNCHANGED exc
       ELSE /\ exc' = [exc EXCEPT ![i] = "FileNotFoundError"]
            /\ loc' = [loc EXCEPT ![i] = Dispatch("FileNotFoundError")]
            /\ UNCHANGED cwd
    /\ UNCHANGED <<dirs, png_dirs, output_dir, original_dir, png_files, program, caller, ret>>
    /\ UNCHANGED repairVars
    /\ UNCHANGED resolverVars
    /\ UNCHANGED generateVars

\* return True, str(png_files[0]), None
\* return False, None, "PNG file not found after execution"
Return(i) ==
    /\ loc[i] = "return"
    /\ ret' = [ret EXCEPT ![i] =
                 IF png_files[i] # << >> THEN <<TRUE, Head(png_files[i]), "None">>
                 ELSE <<FALSE, "None", "PNG file not found after execution">>]
    /\ loc' = [loc EXCEPT ![i] = "finally"]
    /\ UNCHANGED <<cwd, dirs, png_dirs, output_dir, original_dir, png_files, program, caller, exc>>
    /\ UNCHANGED repairVars
    /\ UNCHANGED resolverVars
    /\ UNCHANGED generateVars

\* except ImportError as e: os.chdir(original_dir), return False, None,
\* f"Import error: ..."; an exception raised by that chdir leaves the clause
\* through the finally clause
ExceptImportError(i) ==
    /\ loc[i] = "except_import"
    /\ IF original_dir[i] \in dirs
       THEN /\ cwd' = original_dir[i]
            /\ ret' = [ret EXCEPT ![i] = <<FALSE, "None", "Import error: " \o StrOf(exc[i])>>]
            /\ exc' = [exc EXCEPT ![i] = "none"]
       ELSE /\ exc' = [exc EXCEPT ![i] = "FileNotFoundError"]
            /\ UNCHANGED <<cwd, ret>>
    /\ loc' = [loc EXCEPT ![i] = "finally"]
    /\ UNCHANGED <<dirs, png_dirs, output_dir, original_dir, png_files, program, caller>>
    /\ UNCHANGED repairVars
    /\ UNCHANGED resolverVars
    /\ UNCHANGED generateVars

\* except Exception as e: os.chdir(original_dir), return False, None, str(e);
\* an exception raised by that chdir leaves the clause through the finally
\* clause
ExceptException(i) ==
    /\ loc[i] = "except_other"
    /\ IF original_dir[i] \in dirs
       THEN /\ cwd' = original_dir[i]
            /\ ret' = [ret EXCEPT ![i] = <<FALSE, "None", StrOf(exc[i])>>]
            /\ exc' = [exc EXCEPT ![i] = "none"]
       ELSE /\ exc' = [exc EXCEPT ![i] = "FileNotFoundError"]
            /\ UNCHANGED <<cwd, ret>>
    /\ loc' = [loc EXCEPT ![i] = "finally"]
    /\ UNCHANGED <<dirs, png_dirs, output_dir, original_dir, png_files, program, caller>>
    /\ UNCHANGED repairVars
    /\ UNCHANGED resolverVars
    /\ UNCHANGED generateVars

\* finally: try: os.chdir(original_dir) except: pass
\* and then the return, or the exception that no clause has caught
Finally(i) ==
    /\ loc[i] = "finally"
    /\ cwd' = (IF original_dir[i] \in dirs THEN original_dir[i] ELSE cwd)
    /\ loc' = [loc EXCEPT ![i] = "after"]
    /\ UNCHANGED <<dirs, png_dirs, output_dir, original_dir, png_files, program, caller, exc, ret>>
    /\ UNCHANGED repairVars
    /\ UNCHANGED resolverVars
    /\ UNCHANGED generateVars

\* the end of the with-block, reached by a return or by an exception:
\* TemporaryDirectory.cleanup()
Cleanup(i) ==
    /\ loc[i] = "after"
    /\ caller[i] = "handler"
    /\ dirs' = dirs \ {output_dir[i]}
    /\ png_dirs' = png_dirs \ {output_dir[i]}
    /\ loc' = [loc EXCEPT ![i] = "closed"]
    /\ UNCHANGED <<cwd, output_dir, original_dir, png_files, program, caller, exc, ret>>
    /\ UNCHANGED repairVars
    /\ UNCHANGED resolverVars
    /\ UNCHANGED generateVars

NextExecute ==
    \E i \in Invocations :
      \/ TemporaryDirectory(i)
      \/ GetCwd(i)
      \/ ChdirOutput(i)
      \/ ExecImports(i)
      \/ ExecBody(i)
      \/ Glob(i)
      \/ ChdirBack(i)
      \/ Return(i)
      \/ ExceptImportError(i)
      \/ ExceptException(i)
      \/ Finally(i)
      \/ Cleanup(i)

\* one invocation at a time
InitExecute ==
    /\ InitProcess
    /\ InitInvocation(1)
    /\ \A i \in Invocations \ {1} :
         loc[i] = "off" /\ caller[i] = "none" /\ output_dir[i] = "" /\ program[i] = "nopng"
    /\ InitRepairIdle
    /\ InitResolverIdle
    /\ InitGenerateIdle

SpecExecute == InitExecute /\ [][NextExecute]_vars

\* the handlers of several sessions, each on its own thread of the one process
InitOverlap ==
    /\ InitProcess
    /\ cwd = "/app"
    /\ \A i \in Invocations : InitInvocation(i) /\ caller[i] = "handler"
    /\ InitRepairIdle
    /\ InitResolverIdle
    /\ InitGenerateIdle

SpecOverlap == InitOverlap /\ [][NextExecute]_vars

-----------------------------------------------------------------------------
(* Properties of the repair engine, over the run of Spec: text is the input, *)
(* prev the text the last call was given and code the text it returned.      *)

FirstLine(c) == Split(c, "\n")[1]

\* the call site of nm in the second line, when the text has one
UseOf(nm) == "\nnode = " \o nm \o "("

\* the texts of the literal pass and of the pattern pass, by the tables only
AfterBothPasses(c) == ImportPatternsPass(NamingFixesPass(c))

\* C1: repair(repair(t)) = repair(t): a second call on the text the first call
\* returned gives that text back.
C1_Idempotent == calls = 2 => code = prev

\* C2: a valid symbol s of a registry module n is left as it is, in its import
\* line "from n import s" and where it is used, whatever else the text holds.
C2_ValidSymbolKept ==
    (calls = 1 /\ given.module \in Modules /\ given.name \in ValidIn(given.module))
    => /\ FirstLine(code) = ImportLine(given.module, given.name)
       /\ Contains(text, UseOf(given.name)) => Contains(code, UseOf(given.name))

\* C3: a name imported from a registry module that none of the four heuristics
\* resolves against that module's list is left as it is, in the import line and
\* where it is used.
C3_UnresolvedKept ==
    ( /\ calls = 1
      /\ given.module \in Modules
      /\ given.name \notin ValidIn(given.module)
      /\ find_similar_component(given.name, AVAILABLE_COMPONENTS[given.module]) = NoMatch )
    => /\ FirstLine(code) = ImportLine(given.module, given.name)
       /\ Contains(text, UseOf(given.name)) => Contains(code, UseOf(given.name))

\* C4: the name made of a valid symbol s of module n and one more copy of its
\* last character, imported from n, is rewritten to s itself in the import line
\* and where it is used.
C4_DoubledLastResolvesToItself ==
    \A s \in (IF given.module \in Modules THEN ValidIn(given.module) ELSE {}) :
      (calls = 1 /\ given.name = s \o LastChar(s))
      => /\ FirstLine(code) = ImportLine(given.module, s)
         /\ Contains(text, UseOf(given.name)) => Contains(code, UseOf(s))

\* C5: a name that differs only in letter case from a valid symbol of the
\* module it is imported from is rewritten everywhere to a valid symbol of that
\* module, also when the wrong-case name keeps the text from parsing.
C5_CaseMismatchRewritten ==
    ( /\ calls = 1
      /\ given.module \in Modules
      /\ given.name \notin ValidIn(given.module)
      /\ \E s \in ValidIn(given.module) : Lower(s) = Lower(given.name) )
    => /\ \E v \in ValidIn(given.module) : FirstLine(code) = ImportLine(given.module, v)
       /\ \A j \in 1..Len(code) : ~WordAt(code, given.name, j)

C7_BadSpellingReplacedOnly ==
    \A k \in 1..Len(NAMING_FIXES) :
      LET bad == NAMING_FIXES[k][1]
          good == NAMING_FIXES[k][2]
      IN  (calls = 1 /\ bad # good /\ given.module \in Modules /\ given.name = bad)
          => /\ ~Contains(code, bad)
             /\ code = StrReplace(text, bad, good)

\* C8: the rewrite of a resolved pair (old, new) replaces old where it stands as
\* a whole identifier and leaves a longer identifier that starts with old, such
\* as the one after "import " in the second line, as it was.
C8_LongerIdentifierKept ==
    \A k \in 1..Len(fixes) :
      LET old == fixes[k][1]
          longer == "\nimport " \o old \o "x"
      IN  (calls = 1 /\ Contains(AfterBothPasses(prev), longer))
          => /\ Contains(code, longer)
             /\ \A j \in 1..Len(code) : ~WordAt(code, old, j)

-----------------------------------------------------------------------------
(* Properties of find_similar_component, over the run of SpecResolver.      *)

\* the valid symbols equal to nm when case is ignored
EqualIgnoringCase(nm, list) == { v \in Elems(list) : Lower(v) = Lower(nm) }

\* the positions of the valid symbols that contain nm or are contained in it,
\* case ignored
ContainingAt(nm, list) ==
    { i \in 1..Len(list) :
        Contains(Lower(list[i]), Lower(nm)) \/ Contains(Lower(nm), Lower(list[i])) }

\* C9: the four heuristics are tried in the order exact, substring, collapse,
\* trim, and the first that succeeds gives the result: a valid symbol equal to
\* the name ignoring case; else the first valid symbol in list order that
\* contains the name or is contained in it; else a valid symbol equal to the
\* name with its runs collapsed; else, for a name longer than 2, a valid symbol
\* equal to the name without its last character; else no match.  A result is
\* always an element of the list.
C9_HeuristicsInOrder ==
    done =>
      LET exact == EqualIgnoringCase(name, valid)
          within == ContainingAt(name, valid)
          collapsed == EqualIgnoringCase(CollapseRuns(name), valid)
          trimmed == IF Len(name) > 2
                     THEN EqualIgnoringCase(SubSeq(name, 1, Len(name) - 1), valid)
                     ELSE {}
      IN  /\ result # NoMatch => result \in Elems(valid)
          /\ IF exact # {} THEN result \in exact
             ELSE IF within # {}
                  THEN result = valid[CHOOSE i \in within : \A k \in within : i <= k]
             ELSE IF collapsed # {} THEN result \in collapsed
             ELSE IF trimmed # {} THEN result \in trimmed
             ELSE result = NoMatch

\* a name that only the collapse of a doubled character resolves
C9_Witness ==
    /\ done
    /\ result # NoMatch
    /\ EqualIgnoringCase(name, valid) = {}
    /\ ContainingAt(name, valid) = {}

-----------------------------------------------------------------------------
(* Properties of generate_diagram_code, over the run of SpecGenerate.       *)

Failures(l) == { i \in 1..Len(l) : l[i] # "ok" }

\* C10: with max_retries = N the model is called at most N + 1 times; the first
\* attempt that completes returns and no call follows it; a failure reaches the
\* caller only after N + 1 failed attempts in a row, and it is the exception of
\* the last attempt.
C10_BoundedRetry ==
    /\ [](/\ model_calls = Len(log)
          /\ model_calls <= max_retries + 1
          /\ (pc = "returned" /\ max_retries >= 0)
               => /\ log[Len(log)] = "ok"
                  /\ Failures(log) = 1..(Len(log) - 1)
          /\ pc = "try" => Failures(log) = 1..Len(log)
          /\ pc = "raised"
               => /\ Failures(log) = 1..(max_retries + 1)
                  /\ Len(log) = max_retries + 1
                  /\ raised = log[Len(log)])
    /\ [][ /\ pc # "try" => UNCHANGED <<model_calls, log, pc, returned, raised>>
           /\ model_calls' <= model_calls + 1 ]_vars

\* the retries are used up and the last exception is raised
C10_Witness == pc = "raised" /\ max_retries = MaxRetries /\ model_calls = MaxRetries + 1

-----------------------------------------------------------------------------
(* Properties of execute_diagram_code, over the runs of SpecExecute (one    *)
(* invocation) and SpecOverlap (one invocation for each session).           *)

\* the invocation has left execute_diagram_code
Left(i) == loc[i] \in {"after", "closed"}

\* it has left by a return statement
Returned(i) == Left(i) /\ ret[i] # << >> /\ exc[i] = "none"

\* the working directory on return is the one found at entry
C11_DirectoryRestored == \A i \in Invocations : Left(i) => cwd = original_dir[i]

\* the call returns a triple and does not raise
C11_ReturnsTriple == \A i \in Invocations : Left(i) => Returned(i) /\ Len(ret[i]) = 3

\* success is true only when a PNG exists in output_dir
C11_SuccessOnlyWithPng ==
    \A i \in Invocations :
      (loc[i] = "after" /\ Returned(i) /\ ret[i][1]) => output_dir[i] \in png_dirs

\* the temporary directory of the caller is removed afterwards
C11_TempDirRemoved ==
    \A i \in Invocations : loc[i] = "closed" => output_dir[i] \notin dirs

\* C11: on every exit path of one invocation (PNG found, no PNG, ImportError,
\* any other exception of the executed code or of entering the directory) the
\* working directory on return is the one at entry, the call returns a
\* (success, path, error) triple and does not raise, success is true only when
\* a PNG exists in output_dir, and the temporary directory of the caller is
\* removed afterwards.
C11_EveryExitPathCleansUp ==
    /\ C11_DirectoryRestored
    /\ C11_ReturnsTriple
    /\ C11_SuccessOnlyWithPng
    /\ C11_TempDirRemoved

\* the executed code of an invocation runs in the output_dir of that invocation
C12_RunsInOwnDirectory ==
    \A i \in Invocations : loc[i] = "running" => cwd = output_dir[i]

\* the directory an invocation goes back to is the one the process was in
\* before any invocation started, never the output_dir of another invocation
C12_RestoresStartDirectory ==
    \A i \in Invocations :
      original_dir[i] # "None" =>
        /\ original_dir[i] \in StartDirs
        /\ \A j \in Invocations \ {i} : original_dir[i] # TempDir(j)

\* C12: when invocations with different output_dir values overlap in one
\* process, the code of each runs with the working directory equal to its own
\* output_dir for its whole execution and each restores the working directory
\* that was current before either started; no interleaving lets one run in, or
\* return to, the directory of the other.
C12_OverlapKeepsDirectories ==
    /\ C12_RunsInOwnDirectory
    /\ C12_RestoresStartDirectory

====
